---------------------------- MODULE Spec2Model ----------------------------
(***************************************************************************)
(* Graph-Visualiser: the graph page (script.js, GraphVisualizer and        *)
(* visualizeGraph) and the tree page (validateTree, visualizeTree).        *)
(*                                                                         *)
(* Numbers.  A JavaScript number produced by Number() is the record        *)
(* [nan, half]: nan says it is NaN, half is twice its value, so that 1.5   *)
(* is [nan |-> FALSE, half |-> 3].  Zoom factors are kept in thousandths   *)
(* (1000 is the factor 1), canvas coordinates in whole pixels.             *)
(*                                                                         *)
(* Text.  An edge specification is the sequence of its comma-separated     *)
(* items, each item the sequence of the fields that trim() and             *)
(* split(/\s+/) produce; the empty item is <<"">>.                         *)
(***************************************************************************)
EXTENDS Integers, Sequences, FiniteSets, TLC

VARIABLES
    form,         \* the input form of the graph page: nodes, edges, directed,
                  \* showLabels, showBridges, showSCC
    errorText,    \* the "error" element of the graph page
    nodes,        \* this.nodes
    edges,        \* this.edges
    isDirected,   \* this.isDirected
    showLabels,   \* this.showLabels
    showBridges,  \* this.showBridges
    showSCC,      \* this.showSCC
    bridges,      \* this.bridges
    sccs,         \* this.sccs
    sccColors,    \* this.sccColors
    zoom,         \* this.zoom, in thousandths
    offsetX,      \* this.offsetX
    offsetY,      \* this.offsetY
    isDragging,   \* this.isDragging
    dragNode,     \* this.dragNode
    wheelTicks,   \* number of wheel events delivered so far (bounds the run)
    treeForm,     \* the input of the tree page as visualizeTree parses it: n, root, edges
    treeError,    \* the "error" element of the tree page
    treeDrawn,    \* the tree canvas shows a tree (drawTree has run)
    treeCoords,   \* the coords array drawTree was last handed, x in thousandths
    altLoaded,    \* the browser shows the second graph page (unnamed/part_001)
    altNodes,     \* this.nodes of the second graph page
    altEdges,     \* this.edges of the second graph page
    altZoom,      \* this.zoom of the second graph page, in thousandths
    altOffsetX,   \* this.offsetX of the second graph page
    altOffsetY    \* this.offsetY of the second graph page

session == <<nodes, edges, isDirected, showLabels, showBridges, showSCC,
             bridges, sccs, zoom, offsetX, offsetY>>

\* this.mouseX and this.mouseY are written by mousedown and never read
pointer == <<isDragging, dragNode>>

graphVars == <<form, errorText, nodes, edges, isDirected, showLabels, showBridges,
               showSCC, bridges, sccs, sccColors, zoom, offsetX, offsetY,
               isDragging, dragNode, wheelTicks>>

treeVars == <<treeForm, treeError, treeDrawn, treeCoords>>

\* The second graph page is the code of script.js without the drag handlers,
\* with another zoom range and with curved edges; of its object the model
\* keeps the nodes, the edges and the view.
altVars == <<altLoaded, altNodes, altEdges, altZoom, altOffsetX, altOffsetY>>

vars == <<form, errorText, nodes, edges, isDirected, showLabels, showBridges,
          showSCC, bridges, sccs, sccColors, zoom, offsetX, offsetY,
          isDragging, dragNode, wheelTicks, treeForm, treeError, treeDrawn,
          treeCoords,
          altLoaded, altNodes, altEdges, altZoom, altOffsetX, altOffsetY>>

(***************************************************************************)
(* Bounds of the model.                                                    *)
(***************************************************************************)
MaxN == 3            \* node counts of the enumerated graphs
MaxEdges == 3        \* edges of the enumerated graphs
MaxRangeN == 2       \* node counts of the enumerated out-of-range edge lists
MaxRangeEdges == 2   \* pairs of the enumerated out-of-range edge lists
MaxTreeN == 3        \* node counts of the enumerated tree inputs
MaxTreeEdges == 3    \* edge pairs of the enumerated tree inputs
MaxTreeRangeN == 2   \* node counts of the tree inputs with out-of-range endpoints
MaxWheelTicks == 1   \* wheel events in one run

(***************************************************************************)
(* Small helpers.                                                          *)
(***************************************************************************)
Min(a, b) == IF a < b THEN a ELSE b

Max(a, b) == IF a > b THEN a ELSE b

Range(s) == {s[i] : i \in 1..Len(s)}

SeqsUpTo(S, k) == UNION {[1..m -> S] : m \in 0..k}

(***************************************************************************)
(* Number(text) and parseInt(text) on the texts the model types in.        *)
(***************************************************************************)
JsNaN == [nan |-> TRUE, half |-> 0]

JsInt(k) == [nan |-> FALSE, half |-> 2 * k]

JsHalf(h) == [nan |-> FALSE, half |-> h]

NumberOf(text) ==
    CASE text = ""    -> JsInt(0)
      [] text = "0"   -> JsInt(0)
      [] text = "1"   -> JsInt(1)
      [] text = "2"   -> JsInt(2)
      [] text = "3"   -> JsInt(3)
      [] text = "4"   -> JsInt(4)
      [] text = "5"   -> JsInt(5)
      [] text = "6"   -> JsInt(6)
      [] text = "-1"  -> JsInt(-1)
      [] text = "1.5" -> JsHalf(3)
      [] text = "2.5" -> JsHalf(5)
      [] OTHER        -> JsNaN

ParseIntOf(text) ==
    CASE text = "0"   -> JsInt(0)
      [] text = "1"   -> JsInt(1)
      [] text = "2"   -> JsInt(2)
      [] text = "3"   -> JsInt(3)
      [] text = "4"   -> JsInt(4)
      [] text = "5"   -> JsInt(5)
      [] text = "6"   -> JsInt(6)
      [] text = "-1"  -> JsInt(-1)
      [] text = "2.5" -> JsInt(2)
      [] text = "3x"  -> JsInt(3)
      [] text = "11"  -> JsInt(11)
      [] text = "21"  -> JsInt(21)
      [] text = "31"  -> JsInt(31)
      [] text = "41"  -> JsInt(41)
      [] text = "50"  -> JsInt(50)
      [] text = "51"  -> JsInt(51)
      [] OTHER        -> JsNaN

isNaN(a) == a.nan

IsInteger(a) == ~a.nan /\ a.half % 2 = 0

IntOf(a) == a.half \div 2

\* a < k and a > k for an integer k; every comparison with NaN is false
Lt(a, k) == ~a.nan /\ a.half < 2 * k

Gt(a, k) == ~a.nan /\ a.half > 2 * k


(***************************************************************************)
(* Math.sin and Math.cos of the angle 2*pi*a/b, in thousandths.  The       *)
(* floating-point values are replaced by Bhaskara's rational approximation *)
(* (error below 2 thousandths), which is exact at the quarter turns.       *)
(***************************************************************************)
SinHalfTurn(a, b) ==
    LET p == a * (b - 2 * a)
    IN  (32000 * p) \div (5 * b * b - 8 * p)

SinMilli(a, b) ==
    LET r == a % b
    IN  IF 2 * r <= b THEN SinHalfTurn(r, b) ELSE 0 - SinHalfTurn(2 * r - b, 2 * b)

CosMilli(a, b) == SinMilli(4 * a + b, 4 * b)

RoundMilli(v) == (v + 500) \div 1000

(***************************************************************************)
(* The canvas: visualizeGraph sizes it from its parent element, whose      *)
(* client size is fixed at 840 x 640 here.                                 *)
(***************************************************************************)
CanvasWidth == 840 - 40

CanvasHeight == 640 - 40

baseRadius == 25

(***************************************************************************)
(* GraphVisualizer.calculateOptimalZoom                                    *)
(***************************************************************************)
calculateOptimalZoom(nodeCount) ==
    IF nodeCount <= 10 THEN 1000
    ELSE IF nodeCount <= 20 THEN 800
    ELSE IF nodeCount <= 30 THEN 600
    ELSE IF nodeCount <= 40 THEN 500
    ELSE 400

(***************************************************************************)
(* GraphVisualizer.getNodeAt: the id of the first node of this.nodes whose *)
(* disc holds (x, y), 0 for null.                                          *)
(***************************************************************************)
NodeHit(node, x, y) ==
    (x - node.x) * (x - node.x) + (y - node.y) * (y - node.y) <= node.radius * node.radius

getNodeAt(ns, x, y) ==
    LET hits == {i \in 1..Len(ns) : NodeHit(ns[i], x, y)}
    IN  IF hits = {} THEN 0 ELSE CHOOSE i \in hits : \A j \in hits : i <= j

(***************************************************************************)
(* The circular placement of parseInput.                                   *)
(***************************************************************************)
LayoutNodes(nodeCount) ==
    LET centerX == CanvasWidth \div 2
        centerY == CanvasHeight \div 2
        radius  == (Min(centerX, centerY) * 7) \div 10
    IN  [i \in 1..nodeCount |->
            [id |-> i,
             x |-> centerX + RoundMilli(radius * CosMilli(i - 1, nodeCount)),
             y |-> centerY + RoundMilli(radius * SinMilli(i - 1, nodeCount)),
             radius |-> baseRadius]]

(***************************************************************************)
(* GraphVisualizer.generateSCCColors: one colour per component, as the     *)
(* hue (thousandths of a degree), saturation and lightness handed to       *)
(* hslToHex.                                                               *)
(***************************************************************************)
\* the loop stopping one component short
generateSCCColors_OneShort(numSCCs) ==
    [k \in 1..(numSCCs - 1) |->
        [hue |-> ((k - 1) * 137508) % 360000,
         saturation |-> 60 + ((k - 1) % 3) * 15,
         lightness |-> 45 + ((k - 1) % 4) * 10]]

generateSCCColors(numSCCs) ==
    [k \in 1..numSCCs |->
        [hue |-> ((k - 1) * 137508) % 360000,
         saturation |-> 60 + ((k - 1) % 3) * 15,
         lightness |-> 45 + ((k - 1) % 4) * 10]]

(***************************************************************************)
(* Adjacency lists, arrays of length n + 1 indexed from 0.  es is a        *)
(* sequence of edges with integer endpoints [from, to].                    *)
(***************************************************************************)
RECURSIVE BuildUndirectedAdj(_, _, _)
BuildUndirectedAdj(es, i, adj) ==
    IF i > Len(es) THEN adj
    ELSE LET a1 == [adj EXCEPT ![es[i].from] = Append(@, es[i].to)]
             a2 == [a1 EXCEPT ![es[i].to] = Append(@, es[i].from)]
         IN  BuildUndirectedAdj(es, i + 1, a2)

RECURSIVE BuildAdj(_, _, _)
BuildAdj(es, i, adj) ==
    IF i > Len(es) THEN adj
    ELSE BuildAdj(es, i + 1, [adj EXCEPT ![es[i].from] = Append(@, es[i].to)])

RECURSIVE BuildRevAdj(_, _, _)
BuildRevAdj(es, i, adj) ==
    IF i > Len(es) THEN adj
    ELSE BuildRevAdj(es, i + 1, [adj EXCEPT ![es[i].to] = Append(@, es[i].from)])

EmptyAdj(n) == [k \in 0..n |-> <<>>]

(***************************************************************************)
(* The call stack of a depth-first pass: calls counts the entries into the *)
(* recursive function per node, depth is the number of its activations on  *)
(* the stack and maxDepth the largest depth the pass has had.              *)
(***************************************************************************)
NoCalls(n) == [calls |-> [k \in 0..n |-> 0], depth |-> 0, maxDepth |-> 0]

Enter(cs, v) ==
    [calls    |-> [cs.calls EXCEPT ![v] = @ + 1],
     depth    |-> cs.depth + 1,
     maxDepth |-> Max(cs.maxDepth, cs.depth + 1)]

Return(cs) == [cs EXCEPT !.depth = @ - 1]

(***************************************************************************)
(* GraphVisualizer.findBridges (Tarjan).  st holds the closure's arrays    *)
(* visited, disc, low, parent, the clock time, this.bridges and the call   *)
(* stack cs of bridgeUtil.                                                 *)
(***************************************************************************)
RECURSIVE bridgeUtil(_, _, _)
RECURSIVE bridgeLoop(_, _, _, _)
bridgeUtil(adj, u, st) ==
    LET s1 == bridgeLoop(adj, u, 1,
                         [st EXCEPT !.cs = Enter(@, u),
                                    !.visited[u] = TRUE,
                                    !.time = st.time + 1,
                                    !.disc[u] = st.time + 1,
                                    !.low[u] = st.time + 1])
    IN  [s1 EXCEPT !.cs = Return(@)]

\* parent[v] = u assigned for every neighbour, visited or not
bridgeLoop_ParentOfEveryNeighbour(adj, u, i, st) ==
    IF i > Len(adj[u]) THEN st
    ELSE LET v  == adj[u][i]
             sp == [st EXCEPT !.parent[v] = u]
         IN  IF ~st.visited[v]
             THEN LET s1 == bridgeUtil(adj, v, sp)
                      s2 == [s1 EXCEPT !.low[u] = Min(s1.low[u], s1.low[v])]
                      s3 == IF s2.low[v] > s2.disc[u]
                            THEN [s2 EXCEPT !.bridges = Append(@, <<u, v>>)]
                            ELSE s2
                  IN  bridgeLoop(adj, u, i + 1, s3)
             ELSE IF v # sp.parent[u]
             THEN bridgeLoop(adj, u, i + 1,
                             [sp EXCEPT !.low[u] = Min(sp.low[u], sp.disc[v])])
             ELSE bridgeLoop(adj, u, i + 1, sp)

bridgeLoop(adj, u, i, st) ==
    IF i > Len(adj[u]) THEN st
    ELSE LET v == adj[u][i]
         IN  IF ~st.visited[v]
             THEN LET s1 == bridgeUtil(adj, v, [st EXCEPT !.parent[v] = u])
                      s2 == [s1 EXCEPT !.low[u] = Min(s1.low[u], s1.low[v])]
                      s3 == IF s2.low[v] > s2.disc[u]
                            THEN [s2 EXCEPT !.bridges = Append(@, <<u, v>>)]
                            ELSE s2
                  IN  bridgeLoop(adj, u, i + 1, s3)
             ELSE IF v # st.parent[u]
             THEN bridgeLoop(adj, u, i + 1,
                             [st EXCEPT !.low[u] = Min(st.low[u], st.disc[v])])
             ELSE bridgeLoop(adj, u, i + 1, st)

RECURSIVE bridgeRoots(_, _, _, _)

\* the loop over the roots calling bridgeUtil on every node
bridgeRoots_NoVisitedCheck(adj, n, i, st) ==
    IF i > n THEN st
    ELSE bridgeRoots(adj, n, i + 1, bridgeUtil(adj, i, st))

bridgeRoots(adj, n, i, st) ==
    IF i > n THEN st
    ELSE IF ~st.visited[i] THEN bridgeRoots(adj, n, i + 1, bridgeUtil(adj, i, st))
    ELSE bridgeRoots(adj, n, i + 1, st)

\* the closure's variables when findBridges returns
bridgeRun(n, es) ==
    LET adj == BuildUndirectedAdj(es, 1, EmptyAdj(n))
        st0 == [visited |-> [k \in 0..n |-> FALSE],
                disc    |-> [k \in 0..n |-> -1],
                low     |-> [k \in 0..n |-> -1],
                parent  |-> [k \in 0..n |-> -1],
                time    |-> 0,
                bridges |-> <<>>,
                cs      |-> NoCalls(n)]
    IN  bridgeRoots(adj, n, 1, st0)

findBridges(n, es) == bridgeRun(n, es).bridges

(***************************************************************************)
(* GraphVisualizer.findSCCs (Kosaraju).  The state of each pass carries    *)
(* the call stack cs of its recursive function.                            *)
(***************************************************************************)
RECURSIVE dfs1(_, _, _)
RECURSIVE dfs1Loop(_, _, _, _)
dfs1(adj, v, st) ==
    LET s1 == dfs1Loop(adj, v, 1, [st EXCEPT !.cs = Enter(@, v), !.visited[v] = TRUE])
    IN  [s1 EXCEPT !.stack = Append(@, v), !.cs = Return(@)]

dfs1Loop(adj, v, i, st) ==
    IF i > Len(adj[v]) THEN st
    ELSE LET u == adj[v][i]
         IN  IF ~st.visited[u] THEN dfs1Loop(adj, v, i + 1, dfs1(adj, u, st))
             ELSE dfs1Loop(adj, v, i + 1, st)

RECURSIVE dfs1Roots(_, _, _, _)
dfs1Roots(adj, n, i, st) ==
    IF i > n THEN st
    ELSE IF ~st.visited[i] THEN dfs1Roots(adj, n, i + 1, dfs1(adj, i, st))
    ELSE dfs1Roots(adj, n, i + 1, st)

RECURSIVE dfs2(_, _, _)
RECURSIVE dfs2Loop(_, _, _, _)

\* component.push(v) moved behind the loop over revAdj[v]
dfs2_PushOnReturn(revAdj, v, st) ==
    LET s1 == dfs2Loop(revAdj, v, 1, [st EXCEPT !.cs = Enter(@, v), !.visited[v] = TRUE])
    IN  [s1 EXCEPT !.component = Append(@, v), !.cs = Return(@)]

dfs2(revAdj, v, st) ==
    LET s1 == dfs2Loop(revAdj, v, 1,
                       [st EXCEPT !.cs = Enter(@, v),
                                  !.visited[v] = TRUE,
                                  !.component = Append(@, v)])
    IN  [s1 EXCEPT !.cs = Return(@)]

dfs2Loop(revAdj, v, i, st) ==
    IF i > Len(revAdj[v]) THEN st
    ELSE LET u == revAdj[v][i]
         IN  IF ~st.visited[u] THEN dfs2Loop(revAdj, v, i + 1, dfs2(revAdj, u, st))
             ELSE dfs2Loop(revAdj, v, i + 1, st)

RECURSIVE sccPop(_, _, _)

\* the while loop without its visited test
sccPop_NoVisitedCheck(revAdj, stack, st) ==
    IF Len(stack) = 0 THEN st
    ELSE LET v    == stack[Len(stack)]
             rest == SubSeq(stack, 1, Len(stack) - 1)
             s    == dfs2(revAdj, v, [st EXCEPT !.component = <<>>])
         IN  sccPop(revAdj, rest, [s EXCEPT !.sccs = Append(@, s.component)])

\* the while loop popping the finishing-order stack; st.component is the
\* array handed to dfs2, st.sccs is this.sccs
sccPop(revAdj, stack, st) ==
    IF Len(stack) = 0 THEN st
    ELSE LET v    == stack[Len(stack)]
             rest == SubSeq(stack, 1, Len(stack) - 1)
         IN  IF ~st.visited[v]
             THEN LET s == dfs2(revAdj, v, [st EXCEPT !.component = <<>>])
                  IN  sccPop(revAdj, rest, [s EXCEPT !.sccs = Append(@, s.component)])
             ELSE sccPop(revAdj, rest, st)

\* the closure's variables after the first pass
firstPass(n, es) ==
    dfs1Roots(BuildAdj(es, 1, EmptyAdj(n)), n, 1,
              [visited |-> [k \in 0..n |-> FALSE], stack |-> <<>>, cs |-> NoCalls(n)])

\* visited.fill(false); this.sccs = []
secondStart(n) ==
    [visited |-> [k \in 0..n |-> FALSE], component |-> <<>>, sccs |-> <<>>,
     cs |-> NoCalls(n)]

\* the closure's variables when the while loop has emptied the stack
secondPass(n, es) ==
    sccPop(BuildRevAdj(es, 1, EmptyAdj(n)), firstPass(n, es).stack, secondStart(n))

\* the second pass run on the forward lists
findSCCs_ForwardSecondPass(n, es) ==
    sccPop(BuildAdj(es, 1, EmptyAdj(n)), firstPass(n, es).stack, secondStart(n)).sccs

findSCCs(n, es) == secondPass(n, es).sccs

(***************************************************************************)
(* Error messages.  kind is "" for the empty text; the other fields are    *)
(* what the message names: the offending token, the edge and the node      *)
(* count.                                                                  *)
(***************************************************************************)
Message(kind) == [kind |-> kind, token |-> <<>>, u |-> JsNaN, v |-> JsNaN, n |-> 0]

NoError == Message("")

FormatError(item) == [Message("format") EXCEPT !.token = item]

RangeError(u, v, nodeCount) == [Message("range") EXCEPT !.u = u, !.v = v, !.n = nodeCount]

\* reading a property of undefined: adj[1.5].push(...), nodes[0.5].x
TypeError == Message("type")

(***************************************************************************)
(* GraphVisualizer.parseInput                                              *)
(***************************************************************************)
\* edgesInput.trim() is the empty string
IsBlank(edgesInput) == edgesInput = << <<"">> >>

\* e.trim().split(/\s+/).map(Number)
PartsOf(item) == [k \in 1..Len(item) |-> NumberOf(item[k])]

\* the negation of: parts.length !== 2 || isNaN(parts[0]) || isNaN(parts[1])
EdgeFormatOk(parts) == Len(parts) = 2 /\ ~isNaN(parts[1]) /\ ~isNaN(parts[2])

EdgeOutOfRange_FromZero(u, v, nodeCount) ==
    Lt(u, 0) \/ Gt(u, nodeCount) \/ Lt(v, 0) \/ Gt(v, nodeCount)

\* u < 1 || u > nodeCount || v < 1 || v > nodeCount
EdgeOutOfRange(u, v, nodeCount) ==
    Lt(u, 1) \/ Gt(u, nodeCount) \/ Lt(v, 1) \/ Gt(v, nodeCount)

\* this.showBridges && !directed
RunBridges(sb, directed) == sb /\ ~directed

\* this.showSCC && directed
RunSCC(ss, directed) == ss /\ directed

\* the edges as the arrays index them; defined when every endpoint is an integer
IntEdges(es) == [k \in 1..Len(es) |-> [from |-> IntOf(es[k].from), to |-> IntOf(es[k].to)]]

AllIntegerEdges(es) == \A k \in 1..Len(es) : IsInteger(es[k].from) /\ IsInteger(es[k].to)

\* the assignments of parseInput that precede the edge parsing; this is the
\* record of the object's fields, thrown the exception parseInput ends with
parseReset_KeepsBridges(this, nodeCount, directed, labels, wantBridges, wantSCC) ==
    [this EXCEPT !.thrown      = NoError,
                 !.isDirected  = directed,
                 !.showLabels  = labels,
                 !.showBridges = wantBridges /\ ~directed,
                 !.showSCC     = wantSCC /\ directed,
                 !.nodes       = LayoutNodes(nodeCount),
                 !.edges       = <<>>,
                 !.sccs        = <<>>,
                 !.zoom        = calculateOptimalZoom(nodeCount),
                 !.offsetX     = 0]

parseReset(this, nodeCount, directed, labels, wantBridges, wantSCC) ==
    [this EXCEPT !.thrown      = NoError,
                 !.isDirected  = directed,
                 !.showLabels  = labels,
                 !.showBridges = wantBridges /\ ~directed,
                 !.showSCC     = wantSCC /\ directed,
                 !.nodes       = LayoutNodes(nodeCount),
                 !.edges       = <<>>,
                 !.bridges     = <<>>,
                 !.sccs        = <<>>,
                 !.zoom        = calculateOptimalZoom(nodeCount),
                 !.offsetX     = 0]

parseInput(this, nodeCount, edgesInput, directed, labels, wantBridges, wantSCC) ==
    LET base == parseReset(this, nodeCount, directed, labels, wantBridges, wantSCC)
        sb == base.showBridges
        ss == base.showSCC
        items   == IF IsBlank(edgesInput) THEN <<>> ELSE edgesInput
        parts   == [k \in 1..Len(items) |-> PartsOf(items[k])]
        badFmt  == {k \in 1..Len(items) : ~EdgeFormatOk(parts[k])}
        firstFmt == CHOOSE k \in badFmt : \A j \in badFmt : k <= j
        badRng  == {k \in 1..Len(items) : EdgeOutOfRange(parts[k][1], parts[k][2], nodeCount)}
        firstRng == CHOOSE k \in badRng : \A j \in badRng : k <= j
        pushed(m) == [k \in 1..m |-> [from |-> parts[k][1], to |-> parts[k][2]]]
    IN  IF badFmt # {}
        THEN [base EXCEPT !.thrown = FormatError(items[firstFmt])]
        ELSE IF badRng # {}
        THEN [base EXCEPT !.edges = pushed(firstRng - 1),
                          !.thrown = RangeError(parts[firstRng][1], parts[firstRng][2],
                                                nodeCount)]
        ELSE LET es == pushed(Len(items))
                 withEdges == [base EXCEPT !.edges = es]
                 afterBridges ==
                     IF RunBridges(sb, directed)
                     THEN IF AllIntegerEdges(es)
                          THEN [withEdges EXCEPT
                                   !.bridges = findBridges(nodeCount, IntEdges(es))]
                          ELSE [withEdges EXCEPT !.thrown = TypeError]
                     ELSE withEdges
             IN  IF afterBridges.thrown = NoError /\ RunSCC(ss, directed)
                 THEN IF AllIntegerEdges(es)
                      THEN LET found == findSCCs(nodeCount, IntEdges(es))
                           IN  [afterBridges EXCEPT
                                   !.sccs = found,
                                   !.sccColors = generateSCCColors(Len(found))]
                      ELSE [afterBridges EXCEPT !.thrown = TypeError]
                 ELSE afterBridges

\* GraphVisualizer.draw: drawEdges reads nodes[edge.from - 1].x
drawThrows(es) == ~AllIntegerEdges(es)

(***************************************************************************)
(* The graph page after construction (GraphVisualizer constructor).        *)
(***************************************************************************)
NullNode == [ref |-> "null", id |-> 0]

\* a node object of this.nodes, and a node object of an array that
\* parseInput has since replaced
CurrentNode(i) == [ref |-> "current", id |-> i]

DetachedNode(i) == [ref |-> "detached", id |-> i]

Form(n, e, d, l, b, s) ==
    [nodes |-> n, edges |-> e, directed |-> d, showLabels |-> l,
     showBridges |-> b, showSCC |-> s]

BlankEdges == << <<"">> >>

EmptyForm == Form("", BlankEdges, FALSE, TRUE, FALSE, FALSE)

EmptyTreeForm == [n |-> 0, root |-> 0, edges |-> <<>>]

Constructed ==
    /\ errorText = NoError
    /\ nodes = <<>>
    /\ edges = <<>>
    /\ isDirected = FALSE
    /\ showLabels = TRUE
    /\ showBridges = FALSE
    /\ showSCC = FALSE
    /\ bridges = <<>>
    /\ sccs = <<>>
    /\ sccColors = <<>>
    /\ zoom = 1000
    /\ offsetX = 0
    /\ offsetY = 0
    /\ isDragging = FALSE
    /\ dragNode = NullNode
    /\ wheelTicks = 0

TreeIdle ==
    /\ treeForm = EmptyTreeForm
    /\ treeError = NoError
    /\ treeDrawn = FALSE
    /\ treeCoords = <<>>

\* the second graph page after construction
AltConstructed ==
    /\ altNodes = <<>>
    /\ altEdges = <<>>
    /\ altZoom = 1000
    /\ altOffsetX = 0
    /\ altOffsetY = 0

AltIdle ==
    /\ altLoaded = FALSE
    /\ AltConstructed

(***************************************************************************)
(* visualizeGraph: the click handler of the graph page, reading the form.  *)
(***************************************************************************)
\* isNaN(nodes) || nodes <= 0
BadNodeCount(count) == isNaN(count) \/ ~Gt(count, 0)

\* nodes > 50
TooManyNodes(count) == Gt(count, 50)

Rejection_NoConflictCheck(f) ==
    LET count == ParseIntOf(f.nodes)
    IN  IF isNaN(count) \/ ~Gt(count, 0) THEN Message("nodes")
        ELSE IF Gt(count, 50) THEN Message("max")
        ELSE NoError

Rejection(f) ==
    LET count == ParseIntOf(f.nodes)
    IN  IF BadNodeCount(count) THEN Message("nodes")
        ELSE IF TooManyNodes(count) THEN Message("max")
        ELSE IF f.showBridges /\ f.directed THEN Message("bridgeConflict")
        ELSE IF f.showSCC /\ ~f.directed THEN Message("sccConflict")
        ELSE NoError

\* the fields of the GraphVisualizer object that parseInput assigns
This ==
    [thrown      |-> NoError,
     isDirected  |-> isDirected,
     showLabels  |-> showLabels,
     showBridges |-> showBridges,
     showSCC     |-> showSCC,
     nodes       |-> nodes,
     edges       |-> edges,
     bridges     |-> bridges,
     sccs        |-> sccs,
     sccColors   |-> sccColors,
     zoom        |-> zoom,
     offsetX     |-> offsetX]

visualizeGraph(f) ==
    LET rejected == Rejection(f)
    IN  IF rejected # NoError
        THEN /\ errorText' = rejected
             /\ UNCHANGED <<session, sccColors, pointer, wheelTicks, treeVars, altVars>>
        ELSE \E r \in {parseInput(This, IntOf(ParseIntOf(f.nodes)), f.edges, f.directed,
                                  f.showLabels, f.showBridges, f.showSCC)} :
             /\ nodes' = r.nodes
             /\ edges' = r.edges
             /\ isDirected' = r.isDirected
             /\ showLabels' = r.showLabels
             /\ showBridges' = r.showBridges
             /\ showSCC' = r.showSCC
             /\ bridges' = r.bridges
             /\ sccs' = r.sccs
             /\ sccColors' = r.sccColors
             /\ zoom' = r.zoom
             /\ offsetX' = r.offsetX
             /\ errorText' = IF r.thrown # NoError THEN r.thrown
                             ELSE IF drawThrows(r.edges) THEN TypeError
                             ELSE NoError
             \* the node objects of the replaced array are no longer drawn
             /\ dragNode' = IF dragNode.ref = "null" THEN dragNode
                            ELSE DetachedNode(dragNode.id)
             /\ UNCHANGED <<offsetY, isDragging, wheelTicks, treeVars, altVars>>

(***************************************************************************)
(* The pointer handlers of setupControls.  (sx, sy) is the pointer         *)
(* position relative to the canvas: e.clientX - rect.left, e.clientY -     *)
(* rect.top.                                                               *)
(***************************************************************************)
ToModelX(sx) == ((sx - CanvasWidth \div 2) * 1000) \div zoom + CanvasWidth \div 2 - offsetX

ToModelY(sy) == ((sy - CanvasHeight \div 2) * 1000) \div zoom + CanvasHeight \div 2 - offsetY

\* the zoom-in branch without Math.min
ZoomIn_NoClamp(z) == (z * 1100) \div 1000

ZoomIn(z) == Min((z * 1100) \div 1000, 2000)

ZoomOut(z) == Max((z * 900) \div 1000, 200)

wheel(deltaNegative) ==
    /\ wheelTicks < MaxWheelTicks
    /\ wheelTicks' = wheelTicks + 1
    /\ zoom' = IF deltaNegative THEN ZoomIn(zoom) ELSE ZoomOut(zoom)
    /\ UNCHANGED <<form, errorText, nodes, edges, isDirected, showLabels, showBridges,
                   showSCC, bridges, sccs, sccColors, offsetX, offsetY, pointer, treeVars, altVars>>

\* a reset that also runs the placement again
dblclick_PlacesAgain ==
    /\ zoom' = calculateOptimalZoom(Len(nodes))
    /\ offsetX' = 0
    /\ offsetY' = 0
    /\ nodes' = LayoutNodes(Len(nodes))
    /\ UNCHANGED <<form, errorText, edges, isDirected, showLabels, showBridges,
                   showSCC, bridges, sccs, sccColors, pointer, wheelTicks, treeVars, altVars>>

dblclick ==
    /\ IF isDragging
       THEN UNCHANGED <<zoom, offsetX, offsetY>>
       ELSE /\ zoom' = calculateOptimalZoom(Len(nodes))
            /\ offsetX' = 0
            /\ offsetY' = 0
    /\ UNCHANGED <<form, errorText, nodes, edges, isDirected, showLabels, showBridges,
                   showSCC, bridges, sccs, sccColors, pointer, wheelTicks, treeVars, altVars>>

mousedown(sx, sy) ==
    LET mx == ToModelX(sx)
        my == ToModelY(sy)
        clickedNode == getNodeAt(nodes, mx, my)
    IN  /\ IF clickedNode # 0
           THEN /\ isDragging' = TRUE
                /\ dragNode' = CurrentNode(clickedNode)
           ELSE UNCHANGED pointer
        /\ UNCHANGED <<form, errorText, session, sccColors, wheelTicks, treeVars, altVars>>

\* a drag that carries every node to the pointer
mousemove_MovesAll(sx, sy) ==
    LET mx == ToModelX(sx)
        my == ToModelY(sy)
    IN  /\ IF isDragging /\ dragNode.ref = "current"
           THEN nodes' = [i \in 1..Len(nodes) |-> [nodes[i] EXCEPT !.x = mx, !.y = my]]
           ELSE UNCHANGED nodes
        /\ UNCHANGED <<form, errorText, edges, isDirected, showLabels, showBridges, showSCC,
                       bridges, sccs, sccColors, zoom, offsetX, offsetY, pointer,
                       wheelTicks, treeVars, altVars>>

mousemove(sx, sy) ==
    LET mx == ToModelX(sx)
        my == ToModelY(sy)
    IN  /\ IF isDragging /\ dragNode.ref = "current"
           THEN nodes' = [nodes EXCEPT ![dragNode.id].x = mx, ![dragNode.id].y = my]
           ELSE UNCHANGED nodes
        /\ UNCHANGED <<form, errorText, edges, isDirected, showLabels, showBridges, showSCC,
                       bridges, sccs, sccColors, zoom, offsetX, offsetY, pointer,
                       wheelTicks, treeVars, altVars>>

mouseup ==
    /\ isDragging' = FALSE
    /\ dragNode' = NullNode
    /\ UNCHANGED <<form, errorText, session, sccColors, wheelTicks, treeVars, altVars>>

mouseleave ==
    /\ isDragging' = FALSE
    /\ dragNode' = NullNode
    /\ UNCHANGED <<form, errorText, session, sccColors, wheelTicks, treeVars, altVars>>

(***************************************************************************)
(* The user filling in the form of the graph page.                         *)
(***************************************************************************)
NodeTexts == {"abc", "2.5", "3", "51"}

EdgeTexts ==
    { BlankEdges,
      << <<"1", "2">>, <<"2", "3">> >>,
      << <<"1", "2">>, <<"x">> >>,
      << <<"1.5", "2">> >> }

Forms ==
    {Form(n, e, d, l, b, s) :
        n \in NodeTexts, e \in EdgeTexts,
        d \in BOOLEAN, l \in BOOLEAN, b \in BOOLEAN, s \in BOOLEAN}

\* the requests of a session, all with the labels shown
Requests == {f \in Forms : f.showLabels}

\* the centre of node 1 as parseInput places it, and the centre of the canvas
Points == {<<610, 300>>, <<400, 300>>}

\* a request: the button pressed on the form filled in as f.  Spec does not
\* keep the form between requests.
submit(f) ==
    /\ visualizeGraph(f)
    /\ UNCHANGED form

Init ==
    /\ form = EmptyForm
    /\ Constructed
    /\ TreeIdle
    /\ AltIdle

Next ==
    \/ \E f \in Requests : submit(f)
    \/ \E d \in BOOLEAN : wheel(d)
    \/ dblclick
    \/ \E p \in Points : mousedown(p[1], p[2])
    \/ \E p \in Points : mousemove(p[1], p[2])
    \/ mouseup
    \/ mouseleave

Spec == Init /\ [][Next]_vars

(***************************************************************************)
(* One request on a freshly loaded graph page, for every small graph: the  *)
(* form is filled in before the run and the button pressed.                *)
(***************************************************************************)
DigitText(k) ==
    CASE k = 0 -> "0" [] k = 1 -> "1" [] k = 2 -> "2" [] k = 3 -> "3"
      [] k = 4 -> "4" [] k = 5 -> "5" [] k = 6 -> "6"

ItemsOver(lo, hi) == {<<DigitText(u), DigitText(v)>> : u \in lo..hi, v \in lo..hi}

EdgeTextOf(items) == IF items = <<>> THEN BlankEdges ELSE items

\* every edge list of at most MaxEdges pairs on n nodes, each analysed as an
\* undirected graph (bridges) and as a directed one (SCCs)
GraphForms(n) ==
    {Form(DigitText(n), EdgeTextOf(items), d, TRUE, ~d, d) :
        items \in SeqsUpTo(ItemsOver(1, n), MaxEdges), d \in BOOLEAN}

\* edge lists with endpoints below and above the node range
RangeForms(n) ==
    {Form(DigitText(n), EdgeTextOf(items), d, TRUE, ~d, d) :
        items \in SeqsUpTo(ItemsOver(0, n + 1), MaxRangeEdges), d \in BOOLEAN}

click ==
    /\ visualizeGraph(form)
    /\ UNCHANGED form

InitParse ==
    /\ \/ \E n \in 1..MaxN : form \in GraphForms(n)
       \/ \E n \in 1..MaxRangeN : form \in RangeForms(n)
       \/ form \in Forms
    /\ Constructed
    /\ TreeIdle
    /\ AltIdle

NextParse == click

SpecParse == InitParse /\ [][NextParse]_vars

(***************************************************************************)
(* The form edited field by field between clicks, with wheel zoom and      *)
(* double-click reset in between.                                          *)
(***************************************************************************)
FormNodeTexts == {"abc", "2.5", "3", "51"}

FormEdgeTexts == {BlankEdges, << <<"1", "2">>, <<"2", "3">> >>}

setNodes(text) ==
    /\ form.nodes # text
    /\ form' = [form EXCEPT !.nodes = text]
    /\ UNCHANGED <<errorText, session, sccColors, pointer, wheelTicks, treeVars, altVars>>

setEdges(text) ==
    /\ form.edges # text
    /\ form' = [form EXCEPT !.edges = text]
    /\ UNCHANGED <<errorText, session, sccColors, pointer, wheelTicks, treeVars, altVars>>

toggleDirected ==
    /\ form' = [form EXCEPT !.directed = ~@]
    /\ UNCHANGED <<errorText, session, sccColors, pointer, wheelTicks, treeVars, altVars>>

toggleLabels ==
    /\ form' = [form EXCEPT !.showLabels = ~@]
    /\ UNCHANGED <<errorText, session, sccColors, pointer, wheelTicks, treeVars, altVars>>

toggleBridges ==
    /\ form' = [form EXCEPT !.showBridges = ~@]
    /\ UNCHANGED <<errorText, session, sccColors, pointer, wheelTicks, treeVars, altVars>>

toggleSCC ==
    /\ form' = [form EXCEPT !.showSCC = ~@]
    /\ UNCHANGED <<errorText, session, sccColors, pointer, wheelTicks, treeVars, altVars>>

NextForm ==
    \/ \E t \in FormNodeTexts : setNodes(t)
    \/ \E t \in FormEdgeTexts : setEdges(t)
    \/ toggleDirected
    \/ toggleLabels
    \/ toggleBridges
    \/ toggleSCC
    \/ click
    \/ \E d \in BOOLEAN : wheel(d)
    \/ dblclick

SpecForm == Init /\ [][NextForm]_vars

(***************************************************************************)
(* The view of both graph pages under any number of wheel events.  Only    *)
(* one page is loaded in a run; the requests cover every class of node     *)
(* count that calculateOptimalZoom tells apart, a rejected node count and  *)
(* a parse that fails.                                                     *)
(***************************************************************************)
\* the wheel listener of script.js; the events of this run are not counted
scroll(deltaNegative) ==
    /\ zoom' = IF deltaNegative THEN ZoomIn(zoom) ELSE ZoomOut(zoom)
    /\ UNCHANGED <<form, errorText, nodes, edges, isDirected, showLabels, showBridges,
                   showSCC, bridges, sccs, sccColors, offsetX, offsetY, pointer,
                   wheelTicks, treeVars, altVars>>

AltZoomIn(z) == Min((z * 1100) \div 1000, 5000)

AltZoomOut(z) == Max((z * 900) \div 1000, 50)

\* the wheel listener of the second graph page
altWheel(deltaNegative) ==
    /\ altLoaded
    /\ altZoom' = IF deltaNegative THEN AltZoomIn(altZoom) ELSE AltZoomOut(altZoom)
    /\ UNCHANGED <<graphVars, treeVars, altLoaded, altNodes, altEdges, altOffsetX,
                   altOffsetY>>

\* the dblclick listener of the second graph page
altDblclick ==
    /\ altLoaded
    /\ altZoom' = calculateOptimalZoom(Len(altNodes))
    /\ altOffsetX' = 0
    /\ altOffsetY' = 0
    /\ UNCHANGED <<graphVars, treeVars, altLoaded, altNodes, altEdges>>

\* The object of the second graph page as its parseInput finds it.  The
\* fields the model does not follow have their constructor values; parseInput
\* assigns every one of them but sccColors before it reads them.
AltThis ==
    [thrown      |-> NoError,
     isDirected  |-> FALSE,
     showLabels  |-> TRUE,
     showBridges |-> FALSE,
     showSCC     |-> FALSE,
     nodes       |-> altNodes,
     edges       |-> altEdges,
     bridges     |-> <<>>,
     sccs        |-> <<>>,
     sccColors   |-> <<>>,
     zoom        |-> altZoom,
     offsetX     |-> altOffsetX]

\* visualizeGraph of the second graph page, as far as the nodes, the edges
\* and the view go.  Its parseInput is that of script.js and resets offsetY
\* as well.
altVisualizeGraph(f) ==
    /\ altLoaded
    /\ IF Rejection(f) # NoError
       THEN UNCHANGED <<altNodes, altEdges, altZoom, altOffsetX, altOffsetY>>
       ELSE \E r \in {parseInput(AltThis, IntOf(ParseIntOf(f.nodes)), f.edges, f.directed,
                                 f.showLabels, f.showBridges, f.showSCC)} :
            /\ altNodes' = r.nodes
            /\ altEdges' = r.edges
            /\ altZoom' = r.zoom
            /\ altOffsetX' = r.offsetX
            /\ altOffsetY' = 0
    /\ UNCHANGED <<graphVars, treeVars, altLoaded>>

ZoomNodeTexts == {"abc", "3", "11", "21", "31", "41", "51"}

ZoomEdgeTexts == {BlankEdges, << <<"1", "2">>, <<"x">> >>}

ZoomRequests ==
    {Form(n, e, FALSE, TRUE, FALSE, FALSE) : n \in ZoomNodeTexts, e \in ZoomEdgeTexts}

InitZoom ==
    /\ form = EmptyForm
    /\ Constructed
    /\ TreeIdle
    /\ altLoaded \in BOOLEAN
    /\ AltConstructed

NextZoom ==
    \/ ~altLoaded /\ \E f \in ZoomRequests : submit(f)
    \/ ~altLoaded /\ \E d \in BOOLEAN : scroll(d)
    \/ ~altLoaded /\ dblclick
    \/ \E f \in ZoomRequests : altVisualizeGraph(f)
    \/ \E d \in BOOLEAN : altWheel(d)
    \/ altDblclick

SpecZoom == InitZoom /\ [][NextZoom]_vars

(***************************************************************************)
(* Edge routing.  drawEdges of script.js draws a self-loop as a circle and *)
(* every other edge with drawStraightEdge.  drawEdges of the second graph  *)
(* page asks edgeIntersectsNodes and draws a quadratic curve when it       *)
(* answers true.  es is a sequence of edges with integer endpoints.        *)
(***************************************************************************)
\* x * x <= bound for a bound below 2^31, without forming a square that
\* does not fit a 32-bit integer
SquareAtMost(x, bound) == x \in -46340..46340 /\ x * x <= bound

\* The method compares floating-point numbers; the model decides the same
\* comparisons on integers.  With h = b / 2 and cross = fx*dy - fy*dx,
\*   discriminant = 4 * ((radius + 10)^2 * a - cross^2),
\*   t1 >= 0 iff h <= 0 and c >= 0,      t1 <= 1 iff h + a >= 0 or a + b + c <= 0,
\*   t2 >= 0 iff h <= 0 or c <= 0,       t2 <= 1 iff h + a >= 0 and a + b + c >= 0,
\* for a > 0.  With a = 0 the discriminant is 0 and t1 and t2 are NaN, which
\* compares false.
lineIntersectsCircle(nodeA, nodeB, circleNode) ==
    LET dx == nodeB.x - nodeA.x
        dy == nodeB.y - nodeA.y
        fx == nodeA.x - circleNode.x
        fy == nodeA.y - circleNode.y
        a  == dx * dx + dy * dy
        h  == fx * dx + fy * dy
        c  == fx * fx + fy * fy - (circleNode.radius + 10) * (circleNode.radius + 10)
        cross == fx * dy - fy * dx
        discriminantNegative ==
            ~SquareAtMost(cross, (circleNode.radius + 10) * (circleNode.radius + 10) * a)
        t1InSegment == (h <= 0 /\ c >= 0) /\ (h + a >= 0 \/ a + 2 * h + c <= 0)
        t2InSegment == (h <= 0 \/ c <= 0) /\ (h + a >= 0 /\ a + 2 * h + c >= 0)
    IN  IF discriminantNegative THEN FALSE
        ELSE IF a = 0 THEN FALSE
        ELSE t1InSegment \/ t2InSegment

\* the test with its return value negated
edgeIntersectsNodes_Negated(ns, nodeA, nodeB) ==
    ~\E k \in 1..Len(ns) :
        /\ ns[k].id # nodeA.id
        /\ ns[k].id # nodeB.id
        /\ lineIntersectsCircle(nodeA, nodeB, ns[k])

edgeIntersectsNodes(ns, nodeA, nodeB) ==
    \E k \in 1..Len(ns) :
        /\ ns[k].id # nodeA.id
        /\ ns[k].id # nodeB.id
        /\ lineIntersectsCircle(nodeA, nodeB, ns[k])

\* the path drawn for each edge by script.js
drawEdges(ns, es) ==
    [k \in 1..Len(es) |->
        IF es[k].from = es[k].to THEN "loop" ELSE "straight"]

\* the path drawn for each edge by the second graph page
altDrawEdges(ns, es) ==
    [k \in 1..Len(es) |->
        IF es[k].from = es[k].to THEN "loop"
        ELSE IF edgeIntersectsNodes(ns, ns[es[k].from], ns[es[k].to]) THEN "curve"
        ELSE "straight"]

(***************************************************************************)
(* Graphs of 3 to 50 nodes with an edge past a neighbour, on either        *)
(* graph page; on the page of script.js node 1 can be dragged onto the     *)
(* chord between nodes 2 and 3.                                            *)
(***************************************************************************)
RouteNodeTexts == {"3", "11", "21", "31", "41", "50"}

RouteEdgeTexts ==
    { << <<"1", "3">> >>,
      << <<"1", "2">>, <<"2", "3">> >>,
      << <<"1", "3">>, <<"2", "2">> >> }

RouteRequests ==
    {Form(n, e, d, TRUE, FALSE, FALSE) :
        n \in RouteNodeTexts, e \in RouteEdgeTexts, d \in BOOLEAN}

\* the centre of node 1, the centre of the canvas, the middle of the chord
\* between nodes 2 and 3 of a graph of three nodes, and the centre of node 2
RoutePoints ==
    Points \cup {<<295, 300>>, <<LayoutNodes(3)[2].x, LayoutNodes(3)[2].y>>}

NextRoute ==
    \/ ~altLoaded /\ \E f \in RouteRequests : submit(f)
    \/ ~altLoaded /\ \E p \in RoutePoints : mousedown(p[1], p[2])
    \/ ~altLoaded /\ \E p \in RoutePoints : mousemove(p[1], p[2])
    \/ ~altLoaded /\ mouseup
    \/ \E f \in RouteRequests : altVisualizeGraph(f)

SpecRoute == InitZoom /\ [][NextRoute]_vars

(***************************************************************************)
(* Both graph pages with their requests and every listener: the page of    *)
(* script.js as in Spec, the second graph page with its wheel and dblclick *)
(* listeners.  Only one page is loaded in a run.                           *)
(***************************************************************************)
NextView ==
    \/ ~altLoaded /\ \E f \in Requests : submit(f)
    \/ ~altLoaded /\ \E d \in BOOLEAN : wheel(d)
    \/ ~altLoaded /\ dblclick
    \/ ~altLoaded /\ \E p \in Points : mousedown(p[1], p[2])
    \/ ~altLoaded /\ \E p \in Points : mousemove(p[1], p[2])
    \/ ~altLoaded /\ mouseup
    \/ ~altLoaded /\ mouseleave
    \/ \E f \in Requests : altVisualizeGraph(f)
    \/ \E d \in BOOLEAN : altWheel(d)
    \/ altDblclick

SpecView == InitZoom /\ [][NextView]_vars

(***************************************************************************)
(* The tree page.  validateTree(n, edges, root) returns the kind of its    *)
(* message, "" for the empty string.  edges is a sequence of pairs <<u, v>>*)
(* of integers.                                                            *)
(***************************************************************************)
maxNodes == 20

RECURSIVE BuildTreeAdj(_, _, _)
BuildTreeAdj(es, i, adjList) ==
    IF i > Len(es) THEN adjList
    ELSE LET a1 == [adjList EXCEPT ![es[i][1]] = Append(@, es[i][2])]
             a2 == [a1 EXCEPT ![es[i][2]] = Append(@, es[i][1])]
         IN  BuildTreeAdj(es, i + 1, a2)

\* the for loop over adjList[node]; st.cycle records the early return
RECURSIVE treeNeighbors(_, _, _, _, _)
treeNeighbors(adjList, node, parent, i, st) ==
    IF i > Len(adjList[node]) THEN st
    ELSE LET neighbor == adjList[node][i]
         IN  IF ~st.visited[neighbor]
             THEN treeNeighbors(adjList, node, parent, i + 1,
                                [st EXCEPT !.visited[neighbor] = TRUE,
                                           !.queue = Append(@, <<neighbor, node>>)])
             ELSE IF neighbor # parent
             THEN [st EXCEPT !.cycle = TRUE]
             ELSE treeNeighbors(adjList, node, parent, i + 1, st)

\* the while loop over the queue
RECURSIVE treeBfs(_, _)
treeBfs(adjList, st) ==
    IF Len(st.queue) = 0 \/ st.cycle THEN st
    ELSE LET head == Head(st.queue)
             s1   == [st EXCEPT !.queue = Tail(@), !.count = @ + 1]
         IN  treeBfs(adjList, treeNeighbors(adjList, head[1], head[2], 1, s1))

TreeEdgeOutOfRange(e, n) == e[1] < 1 \/ e[1] > n \/ e[2] < 1 \/ e[2] > n

\* without the final count test
validateTree_NoCountCheck(n, es, root) ==
    IF root < 1 \/ root > n THEN "root"
    ELSE IF n > maxNodes THEN "max"
    ELSE IF Len(es) # n - 1 THEN "edgeCount"
    ELSE IF \E k \in 1..Len(es) : TreeEdgeOutOfRange(es[k], n) THEN "invalidNode"
    ELSE LET adjList == BuildTreeAdj(es, 1, [k \in 0..n |-> <<>>])
             st == treeBfs(adjList,
                           [queue   |-> << <<root, -1>> >>,
                            visited |-> [k \in 0..n |-> k = root],
                            count   |-> 0,
                            cycle   |-> FALSE])
         IN  IF st.cycle THEN "cycle" ELSE ""

validateTree(n, es, root) ==
    IF root < 1 \/ root > n THEN "root"
    ELSE IF n > maxNodes THEN "max"
    ELSE IF Len(es) # n - 1 THEN "edgeCount"
    ELSE IF \E k \in 1..Len(es) : TreeEdgeOutOfRange(es[k], n) THEN "invalidNode"
    ELSE LET adjList == BuildTreeAdj(es, 1, [k \in 0..n |-> <<>>])
             st == treeBfs(adjList,
                           [queue   |-> << <<root, -1>> >>,
                            visited |-> [k \in 0..n |-> k = root],
                            count   |-> 0,
                            cycle   |-> FALSE])
         IN  IF st.cycle THEN "cycle"
             ELSE IF st.count # n THEN "unreachable"
             ELSE ""

\* adjList of assignCoordinates: adjList[u].push(v) for each pair, one way
RECURSIVE BuildChildAdj(_, _, _)
BuildChildAdj(es, i, adjList) ==
    IF i > Len(es) THEN adjList
    ELSE BuildChildAdj(es, i + 1, [adjList EXCEPT ![es[i][1]] = Append(@, es[i][2])])

\* the for loop over adjList[node] of assignCoordinates
RECURSIVE levelChildren(_, _, _, _, _)
levelChildren(adjList, node, level, i, st) ==
    IF i > Len(adjList[node]) THEN st
    ELSE LET child == adjList[node][i]
         IN  levelChildren(adjList, node, level, i + 1,
                           [st EXCEPT !.levels[child] = level + 1,
                                      !.queue = Append(@, <<child, level + 1>>)])

\* the while loop of assignCoordinates; it has no visited array and ends
\* when the queue runs empty
RECURSIVE levelBfs(_, _)
levelBfs(adjList, st) ==
    IF Len(st.queue) = 0 THEN st
    ELSE LET head == Head(st.queue)
             s1   == [st EXCEPT !.queue = Tail(@),
                                !.maxLevel = Max(@, head[2])]
         IN  levelBfs(adjList, levelChildren(adjList, head[1], head[2], 1, s1))

\* levels and maxLevel when the while loop has ended
assignLevels(n, es, root) ==
    levelBfs(BuildChildAdj(es, 1, [k \in 0..n |-> <<>>]),
             [queue    |-> << <<root, 0>> >>,
              levels   |-> [k \in 0..n |-> IF k = root THEN 0 ELSE -1],
              maxLevel |-> 0])

\* the array returned: {x: 0, y: 0} for index 0 and for a node without a
\* level; x is kept in thousandths of a pixel
assignCoordinates(n, es, root) ==
    LET lv == assignLevels(n, es, root)
        levels == lv.levels
        nodesPerLevel == [l \in 0..lv.maxLevel |->
                             Cardinality({i \in 1..n : levels[i] = l})]
        widths == {nodesPerLevel[l] * 80 : l \in 0..lv.maxLevel} \cup {800}
        canvasWidth == CHOOSE w \in widths : \A v \in widths : v <= w
        \* levelOffsets[level] when the loop reaches node i
        offsetOf(i) == Cardinality({j \in 1..(i - 1) : levels[j] = levels[i]})
    IN  [i \in 0..n |->
            IF i >= 1 /\ levels[i] >= 0
            THEN [x |-> ((canvasWidth * 1000) \div (nodesPerLevel[levels[i]] + 1))
                            * (offsetOf(i) + 1),
                  y |-> levels[i] * 120 + 60]
            ELSE [x |-> 0, y |-> 0]]

\* drawTree: the nodes whose circle and number are drawn
drawTree(coords, n) == {i \in 1..n : ~(coords[i].x = 0 /\ coords[i].y = 0)}

\* the click handler of the tree page; treeForm holds n, root and edgePairs
\* as it parses them
visualizeTree ==
    /\ IF treeForm.n = 0 \/ treeForm.root = 0
       THEN /\ treeError' = Message("treeInput")
            /\ UNCHANGED <<treeDrawn, treeCoords>>
       ELSE \E error \in {validateTree(treeForm.n, treeForm.edges, treeForm.root)} :
            IF error # ""
            THEN /\ treeError' = Message(error)
                 /\ UNCHANGED <<treeDrawn, treeCoords>>
            ELSE /\ treeError' = NoError
                 /\ treeCoords' = assignCoordinates(treeForm.n, treeForm.edges, treeForm.root)
                 /\ treeDrawn' = TRUE
    /\ UNCHANGED <<graphVars, treeForm, altVars>>

PairsOver(lo, hi) == {<<u, v>> : u \in lo..hi, v \in lo..hi}

Chain(n) == [k \in 1..(n - 1) |-> <<k, k + 1>>]

TreeInput(n, root, es) == [n |-> n, root |-> root, edges |-> es]

\* every list of at most MaxTreeEdges pairs on n nodes, with every root from
\* 0 to n + 1
TreeForms(n) ==
    {TreeInput(n, root, es) :
        root \in 0..Max(n + 1, 1), es \in SeqsUpTo(PairsOver(1, n), MaxTreeEdges)}

\* the lists of n - 1 pairs (the others are turned down for their length)
\* with endpoints from 0 to n + 1
TreeRangeForms(n) ==
    {TreeInput(n, root, es) :
        root \in 1..n, es \in [1..(n - 1) -> PairsOver(0, n + 1)]}

\* the chains of maxNodes and maxNodes + 1 nodes
LongChains == {TreeInput(n, 1, Chain(n)) : n \in {maxNodes, maxNodes + 1}}

InitTree ==
    /\ form = EmptyForm
    /\ Constructed
    /\ \/ \E n \in -1..MaxTreeN : treeForm \in TreeForms(n)
       \/ \E n \in 2..MaxTreeRangeN : treeForm \in TreeRangeForms(n)
       \/ treeForm \in LongChains
    /\ treeError = NoError
    /\ treeDrawn = FALSE
    /\ treeCoords = <<>>
    /\ AltIdle

NextTree == visualizeTree

SpecTree == InitTree /\ [][NextTree]_vars

(***************************************************************************)
(* Graph notions the claims are stated with, computed from the definitions *)
(* and not by the traversals above.  es is a sequence of integer edges.    *)
(***************************************************************************)
\* the nodes reachable from the set S along the pairs of R
RECURSIVE Closure(_, _)
Closure(S, R) ==
    LET T == S \cup {p[2] : p \in {q \in R : q[1] \in S}}
    IN  IF T = S THEN S ELSE Closure(T, R)

Arcs(es) == {<<es[k].from, es[k].to>> : k \in 1..Len(es)}

Links(es) == Arcs(es) \cup {<<es[k].to, es[k].from>> : k \in 1..Len(es)}

ComponentOf(es, v) == Closure({v}, Links(es))

NumComponents(n, es) == Cardinality({ComponentOf(es, v) : v \in 1..n})

ReachableFrom(es, v) == Closure({v}, Arcs(es))

MutuallyReachable(es, a, b) ==
    b \in ReachableFrom(es, a) /\ a \in ReachableFrom(es, b)

\* es without its k-th edge
WithoutEdge(es, k) == [j \in 1..(Len(es) - 1) |-> IF j < k THEN es[j] ELSE es[j + 1]]

\* GraphVisualizer.isBridge
isBridge(bs, from, to) ==
    \E k \in 1..Len(bs) : \/ bs[k][1] = from /\ bs[k][2] = to
                          \/ bs[k][1] = to /\ bs[k][2] = from

\* the page has answered a click: a graph is loaded or a message is shown
Clicked == nodes # <<>> \/ errorText # NoError

\* parseInput returned, and draw drew the graph
Accepted == nodes # <<>> /\ errorText = NoError

(***************************************************************************)
(* C2.  For every accepted undirected graph with bridge display, an input  *)
(* edge is in the bridge set (isBridge) exactly when removing that one     *)
(* edge raises the number of connected components, and every pair of the   *)
(* bridge set is an input edge, whichever way round it is written.         *)
(***************************************************************************)
C2_BridgesAreCutEdges ==
    (Accepted /\ showBridges /\ ~isDirected) =>
        LET n  == Len(nodes)
            es == IntEdges(edges)
        IN  /\ \A k \in 1..Len(es) :
                   isBridge(bridges, es[k].from, es[k].to)
                       <=> NumComponents(n, WithoutEdge(es, k)) > NumComponents(n, es)
            /\ \A b \in 1..Len(bridges) :
                   \E k \in 1..Len(es) : \/ es[k].from = bridges[b][1] /\ es[k].to = bridges[b][2]
                                         \/ es[k].from = bridges[b][2] /\ es[k].to = bridges[b][1]

(***************************************************************************)
(* C3.  For every accepted directed graph with SCC display, the groups of  *)
(* this.sccs are a partition of 1..n: no group is empty and every node id  *)
(* occurs in exactly one group, once.                                      *)
(***************************************************************************)
Occurrences(groups, v) ==
    Cardinality(UNION {{<<g, i>> : i \in {j \in 1..Len(groups[g]) : groups[g][j] = v}} :
                          g \in 1..Len(groups)})

C3_SCCsPartitionNodes ==
    (Accepted /\ showSCC /\ isDirected) =>
        /\ \A g \in 1..Len(sccs) : Len(sccs[g]) > 0 /\ Range(sccs[g]) \subseteq 1..Len(nodes)
        /\ \A v \in 1..Len(nodes) : Occurrences(sccs, v) = 1

C3_Witness ==
    /\ Accepted /\ showSCC /\ isDirected
    /\ Len(nodes) = 3
    /\ Len(sccs) = 2
    /\ \E g \in 1..Len(sccs) : Len(sccs[g]) = 2

(***************************************************************************)
(* C4.  For every accepted directed graph with SCC display, two nodes are  *)
(* in the same group of this.sccs exactly when each reaches the other      *)
(* along directed edges.                                                   *)
(***************************************************************************)
SameGroup(groups, a, b) == \E g \in 1..Len(groups) : a \in Range(groups[g]) /\ b \in Range(groups[g])

C4_SCCsAreMutualReachability ==
    (Accepted /\ showSCC /\ isDirected) =>
        \A a \in 1..Len(nodes), b \in 1..Len(nodes) :
            SameGroup(sccs, a, b) <=> MutuallyReachable(IntEdges(edges), a, b)

\* a one-way path into a cycle: 1 -> 2 reaches the 2-cycle {2, 3} but is not in it
C4_Witness ==
    /\ Accepted /\ showSCC /\ isDirected
    /\ \E a, b, c \in 1..Len(nodes) :
          /\ a # b /\ b # c /\ a # c
          /\ SameGroup(sccs, b, c)
          /\ ~SameGroup(sccs, a, b)
          /\ b \in ReachableFrom(IntEdges(edges), a)

(***************************************************************************)
(* The edge specification as the claims read it: the integer an item's     *)
(* field denotes, when the field is the decimal text of an integer.        *)
(***************************************************************************)
DecimalText(k) == IF k = -1 THEN "-1" ELSE DigitText(k)

IntegerTexts == {DecimalText(k) : k \in -1..6}

ValueOfText(text) == CHOOSE k \in -1..6 : DecimalText(k) = text

TwoIntegers(item) ==
    Len(item) = 2 /\ item[1] \in IntegerTexts /\ item[2] \in IntegerTexts

ItemsOf(edgesInput) == IF edgesInput = BlankEdges THEN <<>> ELSE edgesInput

\* the request reached parseInput: visualizeGraph showed none of its own messages
Parsed ==
    Clicked /\ errorText.kind \notin {"nodes", "max", "bridgeConflict", "sccConflict"}

(***************************************************************************)
(* C5.  Whenever an item of the edge specification is not exactly two      *)
(* integers, parsing fails with the format error naming that item, and no  *)
(* such item is stored as an edge: every stored endpoint is an integer.    *)
(***************************************************************************)
C5_MalformedItemsRejected ==
    Parsed =>
        LET items == ItemsOf(form.edges)
            bad   == {k \in 1..Len(items) : ~TwoIntegers(items[k])}
        IN  /\ bad # {} =>
                   /\ errorText.kind = "format"
                   /\ \E k \in bad : errorText.token = items[k]
            /\ \A k \in 1..Len(edges) : IsInteger(edges[k].from) /\ IsInteger(edges[k].to)

(***************************************************************************)
(* C6.  When every item is a pair of integers, parseInput fails with the   *)
(* range error exactly when some pair has an endpoint outside 1..nodeCount,*)
(* and the message names both endpoints of the first such pair.            *)
(***************************************************************************)
OutsideRange(item, n) ==
    \/ ValueOfText(item[1]) \notin 1..n
    \/ ValueOfText(item[2]) \notin 1..n

C6_RangeErrorNamesFirstBadPair ==
    (Parsed /\ \A k \in 1..Len(ItemsOf(form.edges)) : TwoIntegers(ItemsOf(form.edges)[k])) =>
        LET items == ItemsOf(form.edges)
            n     == Len(nodes)
            bad   == {k \in 1..Len(items) : OutsideRange(items[k], n)}
            first == CHOOSE k \in bad : \A j \in bad : k <= j
        IN  /\ errorText.kind = "range" <=> bad # {}
            /\ bad # {} =>
                   /\ errorText.u = JsInt(ValueOfText(items[first][1]))
                   /\ errorText.v = JsInt(ValueOfText(items[first][2]))
                   /\ errorText.n = n

\* a range error on the second pair, after a pair that is in range, with the
\* first endpoint of the named pair in range and the second above it
C6_Witness ==
    /\ errorText.kind = "range"
    /\ Len(edges) = 1
    /\ Len(ItemsOf(form.edges)) = 2
    /\ ValueOfText(form.edges[2][1]) \in 1..Len(nodes)
    /\ ValueOfText(form.edges[2][2]) > Len(nodes)

(***************************************************************************)
(* C1.  A parse that fails with the format or the range error leaves the   *)
(* session as it was: nodes, edges, orientation and display flags, bridge  *)
(* set, SCC partition, zoom and pan offset.                                *)
(***************************************************************************)
C1_FailedParseLeavesSession ==
    [][(errorText'.kind \in {"format", "range"} /\ \E f \in Requests : submit(f))
           => UNCHANGED session]_vars

(***************************************************************************)
(* C7.  In every reachable state there are at most 50 nodes and every      *)
(* stored edge has both endpoints in [1, number of nodes]; a request whose *)
(* node count, as typed, is not a positive integer, or exceeds 50, is      *)
(* rejected: the page answers it with a message.                           *)
(***************************************************************************)
ValidNodeCountTexts == {DecimalText(k) : k \in 1..6} \cup {"50"}

EdgesWithinNodes(ns, es) ==
    \A k \in 1..Len(es) :
        /\ ~Lt(es[k].from, 1) /\ ~Gt(es[k].from, Len(ns)) /\ ~isNaN(es[k].from)
        /\ ~Lt(es[k].to, 1) /\ ~Gt(es[k].to, Len(ns)) /\ ~isNaN(es[k].to)

C7_NodeCountAndEndpointsValid ==
    [][/\ Len(nodes') <= 50
       /\ EdgesWithinNodes(nodes', edges')
       /\ (form.nodes \notin ValidNodeCountTexts /\ click) => errorText' # NoError]_vars

(***************************************************************************)
(* C8.  A request for bridge display on a directed graph, or for SCC       *)
(* display on an undirected graph, is rejected and changes nothing in the  *)
(* session.  As first stated, the message shown is always the              *)
(* configuration-conflict message; as amended, it is that message when the *)
(* node count passes the node-count checks (parseInt of the text is in     *)
(* 1..50), which visualizeGraph makes first, and the node-count message    *)
(* otherwise.                                                              *)
(***************************************************************************)
Conflict(f) == (f.showBridges /\ f.directed) \/ (f.showSCC /\ ~f.directed)

ConflictKinds == {"bridgeConflict", "sccConflict"}

NodeCountPasses(f) ==
    LET count == ParseIntOf(f.nodes)
    IN  ~isNaN(count) /\ Gt(count, 0) /\ ~Gt(count, 50)

C8_ConflictAlwaysNamed ==
    [][(Conflict(form) /\ click)
           => (errorText'.kind \in ConflictKinds /\ UNCHANGED session)]_vars

C8_ConflictRejected ==
    [][(Conflict(form) /\ click)
           => /\ UNCHANGED session
              /\ IF NodeCountPasses(form)
                 THEN errorText'.kind \in ConflictKinds
                 ELSE errorText'.kind \in {"nodes", "max"}]_vars

\* a conflicting request was turned down while a graph was loaded and zoomed
C8_Witness ==
    /\ errorText.kind \in ConflictKinds
    /\ nodes # <<>>
    /\ edges # <<>>
    /\ zoom # calculateOptimalZoom(Len(nodes))

(***************************************************************************)
(* C9.  The bridge set is empty whenever the graph is directed, the SCC    *)
(* partition is empty whenever it is undirected, and the two are never     *)
(* both non-empty.                                                         *)
(***************************************************************************)
C9_AnalysesExclusive ==
    /\ isDirected => bridges = <<>>
    /\ ~isDirected => sccs = <<>>
    /\ bridges = <<>> \/ sccs = <<>>

\* bridges of an undirected graph, on a page that showed SCCs before
\* (their colours are still there)
C9_Witness ==
    /\ ~isDirected
    /\ bridges # <<>>
    /\ sccColors # <<>>

(***************************************************************************)
(* C10.  On the tree page an input of integer pairs is accepted (the empty *)
(* message, the tree drawn) exactly when root is in 1..n, n is at most 20, *)
(* every endpoint is in 1..n, there are n - 1 edges, and the undirected    *)
(* graph of the edges reaches every node from the root and has no cycle;   *)
(* every other input is answered with an error message.                    *)
(***************************************************************************)
TreeArcs(es) == {<<es[k][1], es[k][2]>> : k \in 1..Len(es)}

TreeLinks(es) == TreeArcs(es) \cup {<<es[k][2], es[k][1]>> : k \in 1..Len(es)}

TreeComponents(n, es) == {Closure({v}, TreeLinks(es)) : v \in 1..n}

\* a multigraph is a forest when it has as many edges as nodes minus components
IsTreeInput(t) ==
    /\ t.root \in 1..t.n
    /\ t.n <= 20
    /\ \A k \in 1..Len(t.edges) : t.edges[k][1] \in 1..t.n /\ t.edges[k][2] \in 1..t.n
    /\ Len(t.edges) = t.n - 1
    /\ Closure({t.root}, TreeLinks(t.edges)) = 1..t.n
    /\ Len(t.edges) = t.n - Cardinality(TreeComponents(t.n, t.edges))

TreeAnswered == treeDrawn \/ treeError # NoError

C10_ValidateTreeAcceptsTrees ==
    TreeAnswered =>
        /\ treeDrawn <=> IsTreeInput(treeForm)
        /\ treeError # NoError <=> ~IsTreeInput(treeForm)

\* a tree on the most nodes enumerated, rooted away from node 1, is drawn
C10_Witness ==
    /\ treeDrawn
    /\ treeForm.n = MaxTreeN
    /\ treeForm.root # 1

(***************************************************************************)
(* C11.  Under any sequence of parses, wheel events and double clicks the  *)
(* zoom stays within [0.2, 2] on the page of script.js and within          *)
(* [0.05, 5] on the second graph page, and the default zoom of every node  *)
(* count from 0 to 50 lies within both ranges.                             *)
(***************************************************************************)
ZoomRange == 200..2000

AltZoomRange == 50..5000

C11_ZoomWithinRange ==
    /\ zoom \in ZoomRange
    /\ altZoom \in AltZoomRange
    /\ \A n \in 0..50 : calculateOptimalZoom(n) \in ZoomRange \cap AltZoomRange

\* a graph of 41 nodes, shown at 0.4, zoomed in until the upper limit holds it
C11_Witness ==
    /\ ~altLoaded
    /\ Len(nodes) = 41
    /\ zoom = 2000

(***************************************************************************)
(* C12.  A double click sets the zoom to the default of the current node   *)
(* count and the pan offset to (0, 0), and leaves the nodes with their     *)
(* positions, the edges, the bridge set and the SCC partition as they are. *)
(* As first stated this holds in any state: no state allows a double click *)
(* that does otherwise.  As amended, on the page of script.js it holds in  *)
(* the states with no drag in progress, and a double click during a drag   *)
(* changes nothing at all; on the second graph page it holds in any state. *)
(***************************************************************************)
ViewReset ==
    /\ zoom' = calculateOptimalZoom(Len(nodes))
    /\ offsetX' = 0
    /\ offsetY' = 0

GraphKept == UNCHANGED <<nodes, edges, bridges, sccs>>

AltViewReset ==
    /\ altZoom' = calculateOptimalZoom(Len(altNodes))
    /\ altOffsetX' = 0
    /\ altOffsetY' = 0
    /\ UNCHANGED <<altNodes, altEdges>>

C12_ResetInAnyState ==
    /\ ~ENABLED (dblclick /\ ~(ViewReset /\ GraphKept))
    /\ ~ENABLED (altDblclick /\ ~AltViewReset)

C12_ResetOutsideDrag ==
    /\ ~ENABLED (dblclick /\ ~isDragging /\ ~(ViewReset /\ GraphKept))
    /\ ~ENABLED (dblclick /\ isDragging /\ ~UNCHANGED vars)
    /\ ~ENABLED (altDblclick /\ ~AltViewReset)

\* a drag in progress on a zoomed view, the dragged node away from where
\* parseInput placed it: the state in which script.js ignores a double click
C12_Witness ==
    /\ isDragging
    /\ dragNode.ref = "current"
    /\ zoom # calculateOptimalZoom(Len(nodes))
    /\ nodes # LayoutNodes(Len(nodes))

(***************************************************************************)
(* C13.  A pointer move changes no more than the position of the node      *)
(* picked at pointer-down, and that only while the drag is in progress:    *)
(* every other node, the identity and radius of every node, the edges, the *)
(* bridge set, the SCC partition, the zoom and the pan offset stay as they *)
(* are, and a pointer move outside a drag changes no node.                 *)
(***************************************************************************)
PointerMoved == \E p \in Points : mousemove(p[1], p[2])

C13_DragMovesOnlyPickedNode ==
    [][PointerMoved =>
          /\ UNCHANGED <<edges, bridges, sccs, zoom, offsetX, offsetY>>
          /\ Len(nodes') = Len(nodes)
          /\ \A i \in 1..Len(nodes) :
                 /\ nodes'[i].id = nodes[i].id
                 /\ nodes'[i].radius = nodes[i].radius
                 /\ ~(isDragging /\ dragNode = CurrentNode(i)) => nodes'[i] = nodes[i]]_vars

\* a drag in progress that has carried its node to the centre of the canvas,
\* the other nodes where parseInput placed them, on a graph with edges
C13_Witness ==
    /\ isDragging
    /\ dragNode.ref = "current"
    /\ Len(nodes) >= 2
    /\ edges # <<>>
    /\ nodes[dragNode.id].x = CanvasWidth \div 2
    /\ nodes[dragNode.id].y = CanvasHeight \div 2
    /\ \A j \in 1..Len(nodes) :
           j # dragNode.id => nodes[j] = LayoutNodes(Len(nodes))[j]


(***************************************************************************)
(* C14.  A request for one node and no edges leaves no bridge, leaves the  *)
(* single group <<1>> as the SCC partition when SCC detection ran, and     *)
(* puts the node at the centre of the canvas.                              *)
(***************************************************************************)
SingleNode == Accepted /\ Len(nodes) = 1 /\ edges = <<>>

C14_SingleNodeCentred ==
    SingleNode =>
        /\ bridges = <<>>
        /\ (RunSCC(showSCC, isDirected) => sccs = << <<1>> >>)
        /\ nodes[1].x = CanvasWidth \div 2
        /\ nodes[1].y = CanvasHeight \div 2

\* the part of the boundary case that the analyses do deliver
C14_SingleNodeAnalyses ==
    SingleNode =>
        /\ bridges = <<>>
        /\ (RunSCC(showSCC, isDirected) => sccs = << <<1>> >>)


(***************************************************************************)
(* A reference Kosaraju run, written with an explicit stack of frames      *)
(* <<node, index of the next neighbour>> over neighbour lists read off the *)
(* edge sequence: es[k].to for the edges leaving v, in input order, and    *)
(* es[k].from for those entering it.                                       *)
(***************************************************************************)
RefOut(es, v) ==
    LET sel == SelectSeq(es, LAMBDA e : e.from = v)
    IN  [k \in 1..Len(sel) |-> sel[k].to]

RefIn(es, v) ==
    LET sel == SelectSeq(es, LAMBDA e : e.to = v)
    IN  [k \in 1..Len(sel) |-> sel[k].from]

\* runs the frames to exhaustion; pre lists the nodes as they are first
\* visited, post as they are finished
RECURSIVE RefWalk(_, _, _)
RefWalk(nb, frames, w) ==
    IF frames = <<>> THEN w
    ELSE LET top == frames[Len(frames)]
             v   == top[1]
             i   == top[2]
         IN  IF i > Len(nb[v])
             THEN RefWalk(nb, SubSeq(frames, 1, Len(frames) - 1),
                          [w EXCEPT !.post = Append(@, v)])
             ELSE LET u    == nb[v][i]
                      rest == [frames EXCEPT ![Len(frames)] = <<v, i + 1>>]
                  IN  IF u \in w.seen THEN RefWalk(nb, rest, w)
                      ELSE RefWalk(nb, Append(rest, <<u, 1>>),
                                   [w EXCEPT !.seen = @ \cup {u}, !.pre = Append(@, u)])

RefVisit(nb, v, w) ==
    RefWalk(nb, << <<v, 1>> >>, [w EXCEPT !.seen = @ \cup {v}, !.pre = Append(@, v)])

RECURSIVE RefFirstPass(_, _, _, _)
RefFirstPass(nb, n, i, w) ==
    IF i > n THEN w
    ELSE RefFirstPass(nb, n, i + 1, IF i \in w.seen THEN w ELSE RefVisit(nb, i, w))

\* the finishing order of the first pass, first finished first
RefFinishOrder(n, es) ==
    RefFirstPass([v \in 1..n |-> RefOut(es, v)], n, 1,
                 [seen |-> {}, pre |-> <<>>, post |-> <<>>]).post

RECURSIVE RefSecondPass(_, _, _, _, _)
RefSecondPass(nb, order, k, seen, out) ==
    IF k = 0 THEN out
    ELSE IF order[k] \in seen THEN RefSecondPass(nb, order, k - 1, seen, out)
    ELSE LET w == RefVisit(nb, order[k], [seen |-> seen, pre |-> <<>>, post |-> <<>>])
         IN  RefSecondPass(nb, order, k - 1, w.seen, Append(out, w.pre))

RefKosaraju(n, es) ==
    LET order == RefFinishOrder(n, es)
    IN  RefSecondPass([v \in 1..n |-> RefIn(es, v)], order, Len(order), {}, <<>>)

\* the place of v in a sequence that holds it once
PlaceOf(seq, v) == CHOOSE k \in 1..Len(seq) : seq[k] = v

(***************************************************************************)
(* C15.  For every accepted directed graph with SCC display, this.sccs is  *)
(* the output of the reference Kosaraju run on the same edge sequence:     *)
(* the groups come in the order in which their first node leaves the       *)
(* finishing-order stack, last finished first, and each group lists its    *)
(* nodes as the second pass first visits them, the popped node first.      *)
(***************************************************************************)
C15_SCCsInPopOrder ==
    (Accepted /\ showSCC /\ isDirected) =>
        LET n     == Len(nodes)
            es    == IntEdges(edges)
            order == RefFinishOrder(n, es)
        IN  /\ sccs = RefKosaraju(n, es)
            /\ \A g, h \in 1..Len(sccs) :
                   g < h => PlaceOf(order, sccs[g][1]) > PlaceOf(order, sccs[h][1])
            /\ \A g \in 1..Len(sccs) : \A i \in 2..Len(sccs[g]) :
                   PlaceOf(order, sccs[g][1]) > PlaceOf(order, sccs[g][i])

\* three nodes in two groups, the group of two listed against the order of
\* the ids: its higher node finished the first pass last and was popped first
C15_Witness ==
    /\ Accepted /\ showSCC /\ isDirected
    /\ Len(nodes) = 3
    /\ Len(sccs) = 2
    /\ \E g \in 1..Len(sccs) : Len(sccs[g]) = 2 /\ sccs[g][1] > sccs[g][2]


(***************************************************************************)
(* C16.  For every accepted graph on n nodes, self-loops, repeated edges   *)
(* and cycles included, findBridges and the two passes of findSCCs run to  *)
(* completion with an empty call stack, each pass has entered every node   *)
(* 1..n exactly once and no other index, and its call stack was never      *)
(* deeper than n; what the page holds is what these runs returned.         *)
(***************************************************************************)
PassEntersEachNodeOnce(cs, n) ==
    /\ \A v \in 1..n : cs.calls[v] = 1
    /\ cs.calls[0] = 0
    /\ cs.maxDepth <= n
    /\ cs.depth = 0

C16_PassesEnterEachNodeOnce ==
    (Accepted /\ AllIntegerEdges(edges)) =>
        LET n  == Len(nodes)
            es == IntEdges(edges)
        IN  /\ PassEntersEachNodeOnce(bridgeRun(n, es).cs, n)
            /\ PassEntersEachNodeOnce(firstPass(n, es).cs, n)
            /\ PassEntersEachNodeOnce(secondPass(n, es).cs, n)
            /\ RunBridges(showBridges, isDirected) => bridges = bridgeRun(n, es).bridges
            /\ RunSCC(showSCC, isDirected) => sccs = secondPass(n, es).sccs

\* a cycle through all three nodes: every pass goes as deep as there are nodes
C16_Witness ==
    /\ Accepted
    /\ Len(nodes) = 3
    /\ \A a, b \in 1..3 : MutuallyReachable(IntEdges(edges), a, b)
    /\ bridgeRun(3, IntEdges(edges)).cs.maxDepth = 3
    /\ firstPass(3, IntEdges(edges)).cs.maxDepth = 3
    /\ secondPass(3, IntEdges(edges)).cs.maxDepth = 3


(***************************************************************************)
(* C17.  For every accepted graph, no pair (u, u) is in the bridge set,    *)
(* and the bridge set and the SCC partition are those of the same edge     *)
(* sequence with its self-loops taken out: what the page holds after the   *)
(* analysis it ran, and what either analysis returns for the edges.        *)
(***************************************************************************)
IsSelfLoop(e) == e.from = e.to

WithoutSelfLoops(es) == SelectSeq(es, LAMBDA e : ~IsSelfLoop(e))

\* a sequence of pairs as a set of unordered pairs
BridgeSet(bs) == {{bs[k][1], bs[k][2]} : k \in 1..Len(bs)}

\* a sequence of groups as a set of sets
PartitionOf(groups) == {Range(groups[g]) : g \in 1..Len(groups)}

C17_SelfLoopsIrrelevant ==
    (Accepted /\ AllIntegerEdges(edges)) =>
        LET n    == Len(nodes)
            es   == IntEdges(edges)
            bare == WithoutSelfLoops(es)
        IN  /\ \A b \in 1..Len(bridges) : bridges[b][1] # bridges[b][2]
            /\ \A b \in 1..Len(findBridges(n, es)) :
                   findBridges(n, es)[b][1] # findBridges(n, es)[b][2]
            /\ BridgeSet(findBridges(n, es)) = BridgeSet(findBridges(n, bare))
            /\ PartitionOf(findSCCs(n, es)) = PartitionOf(findSCCs(n, bare))
            /\ RunBridges(showBridges, isDirected) =>
                   BridgeSet(bridges) = BridgeSet(findBridges(n, bare))
            /\ RunSCC(showSCC, isDirected) =>
                   PartitionOf(sccs) = PartitionOf(findSCCs(n, bare))

\* an undirected graph whose bridge ends in a node that carries a self-loop
\* written before the bridge in the edge list
C17_Witness ==
    /\ Accepted /\ showBridges /\ ~isDirected
    /\ Len(edges) >= 2
    /\ IsSelfLoop(IntEdges(edges)[1])
    /\ \E k \in 2..Len(edges) :
          /\ ~IsSelfLoop(IntEdges(edges)[k])
          /\ IntEdges(edges)[1].from \in {IntEdges(edges)[k].from, IntEdges(edges)[k].to}
          /\ isBridge(bridges, IntEdges(edges)[k].from, IntEdges(edges)[k].to)


(***************************************************************************)
(* C18.  On either graph page, in every placement of the nodes, an edge    *)
(* that is not a self-loop is drawn as a curve exactly when the straight   *)
(* segment between the centres of its endpoints comes within radius + 10   *)
(* of the centre of a node that is neither endpoint, and as a straight     *)
(* line otherwise.                                                         *)
(***************************************************************************)
\* the distance from the centre of node c to the segment from the centre of
\* a to the centre of b is at most c.radius + 10: the nearest point of the
\* segment is a, b, or the foot of the perpendicular, whose distance is the
\* area of the parallelogram on the two vectors over the length of the segment
SegmentPassesNear(a, b, c) ==
    LET dx  == b.x - a.x
        dy  == b.y - a.y
        fx  == a.x - c.x
        fy  == a.y - c.y
        gx  == b.x - c.x
        gy  == b.y - c.y
        len == dx * dx + dy * dy
        dot == fx * dx + fy * dy
        lim == (c.radius + 10) * (c.radius + 10)
    IN  IF dot >= 0 THEN fx * fx + fy * fy <= lim
        ELSE IF -dot >= len THEN gx * gx + gy * gy <= lim
        ELSE LET twiceArea == fx * dy - fy * dx
             IN  twiceArea \in -46340..46340 /\ twiceArea * twiceArea <= lim * len

PassesNearThirdNode(ns, e) ==
    \E k \in 1..Len(ns) :
        k \notin {e.from, e.to} /\ SegmentPassesNear(ns[e.from], ns[e.to], ns[k])

Drawable(ns, es) ==
    /\ AllIntegerEdges(es)
    /\ \A k \in 1..Len(es) :
           IntOf(es[k].from) \in 1..Len(ns) /\ IntOf(es[k].to) \in 1..Len(ns)

CurvedIffNear(ns, es, paths) ==
    \A k \in 1..Len(es) :
        es[k].from # es[k].to =>
            /\ paths[k] = "curve" <=> PassesNearThirdNode(ns, es[k])
            /\ paths[k] = "straight" <=> ~PassesNearThirdNode(ns, es[k])

PlacedAt(k, x, y) == [id |-> k, x |-> x, y |-> y, radius |-> baseRadius]

C19_ColorsMatchGroupsAlways == Len(sccColors) = Len(sccs)

\* What holds: there is a colour for each group whenever there is a
\* partition.  parseInput empties this.sccs and leaves this.sccColors to
\* findSCCs, so after a request without SCC detection, or one that throws,
\* the colours of the previous graph remain beside an empty partition;
\* getNodeSCCColor reads this.sccColors[i] only for a group i of this.sccs.
C19_ColorsMatchGroups ==
    /\ sccs # <<>> => Len(sccColors) = Len(sccs)
    /\ (Accepted /\ showSCC /\ isDirected) => sccs # <<>>

\* a partition of two groups with its two colours, on a graph that replaced
\* the one a pointer-down had picked a node of
C19_Witness ==
    /\ Accepted /\ showSCC /\ isDirected
    /\ Len(sccs) = 2
    /\ Len(sccColors) = 2
    /\ dragNode.ref = "detached"


(***************************************************************************)
(* C20.  Whenever a drag is in progress, this.dragNode is one of the nodes *)
(* of this.nodes, the graph that is drawn: a request between pointer-down  *)
(* and pointer-up does not leave the drag on a node of the replaced graph. *)
(***************************************************************************)
C20_DragNodeIsDrawn ==
    isDragging =>
        /\ dragNode.ref = "current"
        /\ dragNode.id \in 1..Len(nodes)

\* what the handlers do keep: during a drag this.dragNode is not null, and
\* outside a drag it is null or a node of a replaced graph
C20_DragNodeNotNull ==
    /\ isDragging => dragNode.ref # "null"
    /\ ~isDragging => dragNode.ref # "current"


(***************************************************************************)
(* C21.  For every input the tree page draws, however the two endpoints of *)
(* each edge are written, assignCoordinates gives every node 1..n the      *)
(* level that is its distance from the root and a position other than      *)
(* (0, 0), so that drawTree draws every node.                              *)
(***************************************************************************)
\* the number of links on a shortest path from the nodes of S to v, S being
\* the nodes at distance d from the root
RECURSIVE StepsTo(_, _, _, _)
StepsTo(S, R, v, d) ==
    IF v \in S THEN d
    ELSE LET T == S \cup {p[2] : p \in {q \in R : q[1] \in S}}
         IN  IF T = S THEN -1 ELSE StepsTo(T, R, v, d + 1)

DistanceFromRoot(t, v) == StepsTo({t.root}, TreeLinks(t.edges), v, 0)

C21_EveryNodePlaced ==
    treeDrawn =>
        /\ DOMAIN treeCoords = 0..treeForm.n
        /\ \A v \in 1..treeForm.n :
               /\ assignLevels(treeForm.n, treeForm.edges, treeForm.root).levels[v]
                      = DistanceFromRoot(treeForm, v)
               /\ treeCoords[v].y = DistanceFromRoot(treeForm, v) * 120 + 60
               /\ v \in drawTree(treeCoords, treeForm.n)

\* every edge written from the node nearer the root to the one farther away
WrittenParentFirst(t) ==
    \A k \in 1..Len(t.edges) :
        DistanceFromRoot(t, t.edges[k][1]) < DistanceFromRoot(t, t.edges[k][2])

\* what assignCoordinates does deliver: every node is placed when every
\* edge is written parent first, and only then
C21_PlacedIffParentFirst ==
    treeDrawn =>
        (WrittenParentFirst(treeForm) <=>
             \A v \in 1..treeForm.n :
                 /\ assignLevels(treeForm.n, treeForm.edges, treeForm.root).levels[v]
                        = DistanceFromRoot(treeForm, v)
                 /\ v \in drawTree(treeCoords, treeForm.n))

=============================================================================
